---- MODULE Spec2Model ----
(***************************************************************************)
(* Model of pySFRbox8.py: the Remote command client (request/response     *)
(* correlation over a websocket) and the receive loop of its base class   *)
(* WebSocketClient.                                                        *)
(*                                                                         *)
(* Threads: the caller threads of Threads issue press_button,             *)
(* get_versions and is_power_on; one receive thread runs                  *)
(* _listen_for_messages.  A caller runs from one blocking call to the     *)
(* next: the transmission (connection.send), the registration of the      *)
(* future, and the wake-up from future.result are separate steps.  One    *)
(* iteration of the receive loop (recv, json.loads, _handle_message) is   *)
(* one step.                                                               *)
(*                                                                         *)
(* StatusListener, the second client of the same base class, has its own  *)
(* connection and receive thread; its handler runs the user's callback,   *)
(* so a handler invocation is in progress from the dispatch of a message  *)
(* until _handle_message returns.  ListenerSpec is its specification.     *)
(*                                                                         *)
(* TimeoutError is the exception future.result raises (Python >= 3.11,    *)
(* where concurrent.futures.TimeoutError is the builtin TimeoutError).    *)
(***************************************************************************)
EXTENDS Integers, Sequences, FiniteSets, TLC

\* ---------------------------------------------------------------- bounds
\* Number of request identifiers (uuid4 values) the callers may generate.
MaxCalls == 2
\* Number of frames the receive loop may read from the connection.
MaxMsgs == 2

\* The caller threads.
Threads == {"t1", "t2"}

\* ------------------------------------------------------------- constants
\* Remote.BUTTONS
BUTTONS ==
    { "power", "up", "right", "left", "down", "ok", "back", "home",
      "volDown", "volUp", "mute", "channelDown", "channelUp",
      "fastBackward", "fastForward", "playPause",
      "0", "1", "2", "3", "4", "5", "6", "7", "8", "9", "stop", "record" }

\* Button names the callers pass to press_button: one of BUTTONS and one
\* that is not ('d3' is the name the module's own main block passes).
ButtonInputs == {"volUp", "d3"}

\* Remote.__init__'s default timeout, in seconds.
DefaultTimeout == 10
\* self.timeout = None (wait without limit).
NoTimeout == -1
\* The timeout arguments clients are constructed with.
TimeoutArgs == {0, DefaultTimeout}

\* A key that a dict does not hold.
Absent == "<absent>"
\* message.get("requestId") of a message without the key: None.
NoRequestId == 0
\* The n-th value of str(uuid.uuid4()): fresh and unequal to all others.
uuid4(n) == n
\* A requestId no call of this client generated.
StaleId == MaxCalls + 1

\* The (remoteResponseCode, data) pairs of the responses the box sends: the
\* success code with each data object, a failure code, and no code at all.
\* The data object {"power": v} is written v.
ResponseShapes ==
    { <<"OK", "powerOn">>, <<"OK", "powerOff">>, <<"OK", Absent>>,
      <<"KO", Absent>>, <<Absent, Absent>> }

Message(id, code, data) ==
    [requestId |-> id, remoteResponseCode |-> code, data |-> data]

\* The decoded inbound messages: a response to one of ids, a message
\* without requestId, and a message whose requestId this client never sent.
InboundMessages(ids) ==
    {Message(id, shape[1], shape[2]) : id \in ids, shape \in ResponseShapes}
        \cup {Message(NoRequestId, Absent, "powerOn"),
              Message(StaleId, "OK", Absent)}

NoMessage == Message(NoRequestId, Absent, Absent)

\* The payload dict of _send after payload["requestId"] = request_id.
Payload(action, key, request_id) ==
    [action |-> action, key |-> key, requestId |-> request_id]

NoPayload == Payload(Absent, Absent, NoRequestId)

\* concurrent.futures.Future()
NewFuture == [done |-> FALSE, result |-> NoMessage]

\* What a call gave its caller: a return value or a raised exception.
Outcome(kind, value, payload, response, button) ==
    [ kind |-> kind, value |-> value, payload |-> payload,
      response |-> response, button |-> button ]

NoOutcome == Outcome("none", "None", NoPayload, NoMessage, Absent)

\* ------------------------------------------------------------- variables
VARIABLES
    timeout_arg,      \* the timeout argument the client is constructed with
    inited,           \* Remote.__init__ has returned
    timeout,          \* self.timeout
    closed,           \* self._connection.close() was called
    receive_thread,   \* "running", "exited", or the exception that ended it
    pending_requests, \* self._pending_requests: request_id -> Future
    uuids,            \* number of uuid4 values generated so far
    sent,             \* the payloads transmitted by connection.send, in order
    nrecv,            \* number of frames the receive loop has read
    warnings,         \* number of logging.warning("Unhandled message") calls
    pc,               \* each caller's position: idle, sent, waiting, ended
    method,           \* the operation each caller is in
    payload,          \* _send's payload of each caller
    outcome,          \* the result of each caller's last ended call
    arrived,          \* the first message with the caller's request_id that
                      \* the receive loop read while the call was in progress
    \* StatusListener and its connection
    status_callback_arg, \* a callback is given as on_status_change argument
    on_status_change,    \* self.on_status_change: unset, None or callback
    status_closed,       \* close() was called on the listener
    status_thread,       \* "running", "exited", or the exception that ended it
    status_frames,       \* the frames recv returned, in delivery order
    status_dispatched,   \* the messages _handle_message was invoked with
    status_handling,     \* the handler invocations in progress
    status_calls         \* the arguments the callback was invoked with

status_vars ==
    << status_callback_arg, on_status_change, status_closed, status_thread,
       status_frames, status_dispatched, status_handling, status_calls >>

remote_vars ==
    << timeout_arg, inited, timeout, closed, receive_thread,
       pending_requests, uuids, sent, nrecv, warnings, pc, method, payload,
       outcome, arrived >>

vars == << remote_vars, status_vars >>

\* The state once WebSocketClient.__init__ has opened the listener's
\* connection and started its receive thread; StatusListener.__init__ has
\* not yet set on_status_change.
StatusInit(callback_args) ==
    /\ status_callback_arg \in callback_args
    /\ on_status_change = "unset"
    /\ status_closed = FALSE
    /\ status_thread = "running"
    /\ status_frames = << >>
    /\ status_dispatched = << >>
    /\ status_handling = << >>
    /\ status_calls = << >>

\* The state once WebSocketClient.__init__ has opened the connection and
\* started the receive thread; Remote.__init__ has not yet set its fields.
RemoteInit(timeout_args) ==
    /\ timeout_arg \in timeout_args
    /\ inited = FALSE
    /\ timeout = NoTimeout
    /\ closed = FALSE
    /\ receive_thread = "running"
    /\ pending_requests = << >>
    /\ uuids = 0
    /\ sent = << >>
    /\ nrecv = 0
    /\ warnings = 0
    /\ pc = [t \in Threads |-> "idle"]
    /\ method = [t \in Threads |-> "none"]
    /\ payload = [t \in Threads |-> NoPayload]
    /\ outcome = [t \in Threads |-> NoOutcome]
    /\ arrived = [t \in Threads |-> << >>]

\* A Remote under construction; the listener's connection carries nothing.
Init == RemoteInit(TimeoutArgs) /\ StatusInit({FALSE})

\* ---------------------------------------------------------------- helpers
request_id(t) == payload[t].requestId

\* self._pending_requests[id] = future
Registered(table, id) ==
    [x \in (DOMAIN table) \cup {id} |-> IF x = id THEN NewFuture ELSE table[x]]

\* del self._pending_requests[id]
Deleted(table, id) ==
    [x \in (DOMAIN table) \ {id} |-> table[x]]

\* future.set_result(message)
Resolved(table, id, message) ==
    [table EXCEPT ![id] = [done |-> TRUE, result |-> message]]

\* Mutant of Remote_init: the argument 0 is not turned into None, so
\* future.result(timeout=0) gives up at once.
Remote_init_keeps_zero ==
    /\ ~inited
    /\ inited' = TRUE
    /\ timeout' = timeout_arg
    /\ pending_requests' = << >>
    /\ UNCHANGED << status_vars, timeout_arg, closed, receive_thread, uuids,
                    sent, nrecv, warnings, pc, method, payload, outcome,
                    arrived >>

\* Mutant of Remote_init: the timeout argument is dropped
\* (self.timeout = None), so future.result never gives up.
Remote_init_drops_timeout ==
    /\ ~inited
    /\ inited' = TRUE
    /\ timeout' = NoTimeout
    /\ pending_requests' = << >>
    /\ UNCHANGED << status_vars, timeout_arg, closed, receive_thread, uuids,
                    sent, nrecv, warnings, pc, method, payload, outcome,
                    arrived >>

\* Remote.__init__, after the base constructor.
Remote_init ==
    /\ ~inited
    /\ inited' = TRUE
    /\ timeout' = IF timeout_arg = 0 THEN NoTimeout ELSE timeout_arg
    /\ pending_requests' = << >>
    /\ UNCHANGED << status_vars, timeout_arg, closed, receive_thread, uuids,
                    sent, nrecv, warnings, pc, method, payload, outcome,
                    arrived >>

\* Mutant of close: closing resolves every outstanding future with an empty
\* message, which wakes the blocked callers.
close_resolving_pending ==
    /\ inited
    /\ ~closed
    /\ closed' = TRUE
    /\ pending_requests' =
            [id \in DOMAIN pending_requests |->
                [done |-> TRUE, result |-> pending_requests[id].result]]
    /\ UNCHANGED << status_vars, timeout_arg, inited, timeout, receive_thread,
                    uuids, sent, nrecv, warnings, pc, method, payload,
                    outcome, arrived >>

\* WebSocketClient.close
close ==
    /\ inited
    /\ ~closed
    /\ closed' = TRUE
    /\ UNCHANGED << status_vars, timeout_arg, inited, timeout, receive_thread,
                    pending_requests, uuids, sent, nrecv, warnings, pc,
                    method, payload, outcome, arrived >>

\* --------------------------------------------------------- caller threads
\* A caller may begin an operation once the client is constructed and its
\* previous operation has ended.
CanCall(t) == inited /\ pc[t] \in {"idle", "ended"}

\* The operation of caller t ends: it returns or raises.
Ends(t, m, p, o) ==
    /\ pc' = [pc EXCEPT ![t] = "ended"]
    /\ method' = [method EXCEPT ![t] = m]
    /\ payload' = [payload EXCEPT ![t] = p]
    /\ outcome' = [outcome EXCEPT ![t] = o]

\* Mutant of send_transmit: the future is registered before the send on a
\* closed connection raises, and nothing removes it.
send_transmit_leaving_entry(t, m, action, key) ==
    /\ uuids < MaxCalls
    /\ uuids' = uuids + 1
    /\ arrived' = [arrived EXCEPT ![t] = << >>]
    /\ LET p == Payload(action, key, uuid4(uuids + 1))
       IN  IF closed
           THEN /\ Ends(t, m, p,
                        Outcome("WebSocketConnectionClosedException", "None",
                                NoPayload, NoMessage, Absent))
                /\ pending_requests' =
                      Registered(pending_requests, uuid4(uuids + 1))
                /\ UNCHANGED sent
           ELSE /\ sent' = Append(sent, p)
                /\ pc' = [pc EXCEPT ![t] = "sent"]
                /\ method' = [method EXCEPT ![t] = m]
                /\ payload' = [payload EXCEPT ![t] = p]
                /\ outcome' = [outcome EXCEPT ![t] = NoOutcome]
                /\ UNCHANGED pending_requests
    /\ UNCHANGED << status_vars, timeout_arg, inited, timeout, closed,
                    receive_thread, nrecv, warnings >>

\* _send, up to and including the transmission: request_id = str(uuid4()),
\* payload["requestId"] = request_id,
\* self._connection.send(json.dumps(payload)).
\* A closed connection makes send raise, which ends the call.
send_transmit(t, m, action, key) ==
    /\ uuids < MaxCalls
    /\ uuids' = uuids + 1
    /\ arrived' = [arrived EXCEPT ![t] = << >>]
    /\ LET p == Payload(action, key, uuid4(uuids + 1))
       IN  IF closed
           THEN /\ Ends(t, m, p,
                        Outcome("WebSocketConnectionClosedException", "None",
                                NoPayload, NoMessage, Absent))
                /\ UNCHANGED sent
           ELSE /\ sent' = Append(sent, p)
                /\ pc' = [pc EXCEPT ![t] = "sent"]
                /\ method' = [method EXCEPT ![t] = m]
                /\ payload' = [payload EXCEPT ![t] = p]
                /\ outcome' = [outcome EXCEPT ![t] = NoOutcome]
    /\ UNCHANGED << status_vars, timeout_arg, inited, timeout, closed,
                    receive_thread, pending_requests, nrecv, warnings >>

\* _send: future = Future(); self._pending_requests[request_id] = future.
send_register(t) ==
    /\ pc[t] = "sent"
    /\ pending_requests' = Registered(pending_requests, request_id(t))
    /\ pc' = [pc EXCEPT ![t] = "waiting"]
    /\ UNCHANGED << status_vars, timeout_arg, inited, timeout, closed,
                    receive_thread, uuids, sent, nrecv, warnings, method,
                    payload, outcome, arrived >>

\* What the public operation makes of the response _send returned.
Returned(m, p, response) ==
    CASE m = "press_button" ->
            Outcome("return", "None", NoPayload, NoMessage, Absent)
      [] m = "get_versions" ->
            IF response.data = Absent
            THEN Outcome("KeyError", "None", NoPayload, NoMessage, Absent)
            ELSE Outcome("return", response.data, NoPayload, NoMessage, Absent)
      [] m = "is_power_on" ->
            IF response.data = Absent
            THEN Outcome("KeyError", "None", NoPayload, NoMessage, Absent)
            ELSE Outcome("return",
                         IF response.data = "powerOn" THEN "True" ELSE "False",
                         NoPayload, NoMessage, Absent)

\* _send after future.result returned the response: the status check.
Checked(m, p, response) ==
    IF response.remoteResponseCode = Absent
       \/ response.remoteResponseCode # "OK"
    THEN Outcome("RemoteResponseError", "None", p, response, Absent)
    ELSE Returned(m, p, response)

\* Mutant of send_result: the entry is deleted after the status check
\* instead of in the finally clause, so an error response leaves it behind.
send_result_deletes_on_success(t) ==
    /\ pc[t] = "waiting"
    /\ pending_requests[request_id(t)].done
    /\ LET o == Checked(method[t], payload[t],
                        pending_requests[request_id(t)].result)
       IN  /\ pending_requests' =
                  IF o.kind = "RemoteResponseError"
                  THEN pending_requests
                  ELSE Deleted(pending_requests, request_id(t))
           /\ Ends(t, method[t], payload[t], o)
    /\ UNCHANGED << status_vars, timeout_arg, inited, timeout, closed,
                    receive_thread, uuids, sent, nrecv, warnings, arrived >>

\* _send: future.result(timeout) returns the response; finally the entry is
\* deleted; then the status check and the operation's return.
send_result(t) ==
    /\ pc[t] = "waiting"
    /\ pending_requests[request_id(t)].done
    /\ pending_requests' = Deleted(pending_requests, request_id(t))
    /\ Ends(t, method[t], payload[t],
            Checked(method[t], payload[t],
                    pending_requests[request_id(t)].result))
    /\ UNCHANGED << status_vars, timeout_arg, inited, timeout, closed,
                    receive_thread, uuids, sent, nrecv, warnings, arrived >>

\* Mutant of send_timeout: no finally clause, the entry of a call that timed
\* out stays in the table.
send_timeout_keeps_entry(t) ==
    /\ pc[t] = "waiting"
    /\ timeout # NoTimeout
    /\ ~pending_requests[request_id(t)].done
    /\ Ends(t, method[t], payload[t],
            Outcome("RemoteTimeoutError", "None", payload[t], NoMessage,
                    Absent))
    /\ UNCHANGED << status_vars, timeout_arg, inited, timeout, closed,
                    receive_thread, pending_requests, uuids, sent, nrecv,
                    warnings, arrived >>

\* Mutant of send_timeout: the payload is sent again when the wait times
\* out, before RemoteTimeoutError is raised.
send_timeout_retransmitting(t) ==
    /\ pc[t] = "waiting"
    /\ timeout # NoTimeout
    /\ ~pending_requests[request_id(t)].done
    /\ pending_requests' = Deleted(pending_requests, request_id(t))
    /\ sent' = Append(sent, payload[t])
    /\ Ends(t, method[t], payload[t],
            Outcome("RemoteTimeoutError", "None", payload[t], NoMessage,
                    Absent))
    /\ UNCHANGED << status_vars, timeout_arg, inited, timeout, closed,
                    receive_thread, uuids, nrecv, warnings, arrived >>

\* _send: future.result(timeout) raises TimeoutError; finally the entry is
\* deleted; RemoteTimeoutError(payload) is raised.
send_timeout(t) ==
    /\ pc[t] = "waiting"
    /\ timeout # NoTimeout
    /\ ~pending_requests[request_id(t)].done
    /\ pending_requests' = Deleted(pending_requests, request_id(t))
    /\ Ends(t, method[t], payload[t],
            Outcome("RemoteTimeoutError", "None", payload[t], NoMessage,
                    Absent))
    /\ UNCHANGED << status_vars, timeout_arg, inited, timeout, closed,
                    receive_thread, uuids, sent, nrecv, warnings, arrived >>

\* Mutant of press_button: the name is not validated.
press_button_unvalidated(t, button) ==
    /\ CanCall(t)
    /\ send_transmit(t, "press_button", "buttonEvent", button)

\* Remote.press_button
press_button(t, button) ==
    /\ CanCall(t)
    /\ IF button \notin BUTTONS
       THEN /\ Ends(t, "press_button", NoPayload,
                    Outcome("InvalidButtonError", "None", NoPayload, NoMessage,
                            button))
            /\ arrived' = [arrived EXCEPT ![t] = << >>]
            /\ UNCHANGED << status_vars, timeout_arg, inited, timeout, closed,
                            receive_thread, pending_requests, uuids, sent,
                            nrecv, warnings >>
       ELSE send_transmit(t, "press_button", "buttonEvent", button)

\* Remote.get_versions
get_versions(t) ==
    /\ CanCall(t)
    /\ send_transmit(t, "get_versions", "getVersions", Absent)

\* Remote.is_power_on
is_power_on(t) ==
    /\ CanCall(t)
    /\ send_transmit(t, "is_power_on", "getStatus", Absent)

\* --------------------------------------------------------- receive thread
\* The identifiers the box has seen: those of the transmitted payloads.
SentIds == {sent[i].requestId : i \in 1 .. Len(sent)}

\* History: the first message carrying a call's request_id that is read
\* while that call is in progress.
Arrival(m) ==
    [t \in Threads |->
        IF /\ pc[t] \in {"sent", "waiting"}
           /\ request_id(t) = m.requestId
           /\ arrived[t] = << >>
        THEN << m >>
        ELSE arrived[t]]

\* Mutant of handle_message: the response goes to the oldest unresolved
\* request (send order) instead of the one its requestId names.
handle_message_fifo(message) ==
    IF message.requestId = NoRequestId
    THEN /\ warnings' = warnings + 1
         /\ UNCHANGED << receive_thread, pending_requests >>
    ELSE /\ UNCHANGED warnings
         /\ LET unresolved == {id \in DOMAIN pending_requests :
                                  ~pending_requests[id].done}
            IN  IF unresolved = {}
                THEN /\ receive_thread' = "KeyError"
                     /\ UNCHANGED pending_requests
                ELSE /\ pending_requests' =
                            Resolved(pending_requests,
                                     CHOOSE id \in unresolved :
                                         \A other \in unresolved : id <= other,
                                     message)
                     /\ UNCHANGED receive_thread

\* Mutant of handle_message: the id is read with message["requestId"], which
\* raises KeyError on a message that carries none.
handle_message_indexing(message) ==
    IF message.requestId = NoRequestId
    THEN /\ receive_thread' = "KeyError"
         /\ UNCHANGED << warnings, pending_requests >>
    ELSE /\ UNCHANGED warnings
         /\ IF ~inited
            THEN /\ receive_thread' = "AttributeError"
                 /\ UNCHANGED pending_requests
            ELSE IF message.requestId \notin DOMAIN pending_requests
            THEN /\ receive_thread' = "KeyError"
                 /\ UNCHANGED pending_requests
            ELSE IF pending_requests[message.requestId].done
            THEN /\ receive_thread' = "InvalidStateError"
                 /\ UNCHANGED pending_requests
            ELSE /\ pending_requests' =
                        Resolved(pending_requests, message.requestId, message)
                 /\ UNCHANGED receive_thread

\* Mutant of handle_message: an id without an entry gets one from the
\* handler (setdefault(request_id, Future()).set_result(message)).
handle_message_setdefault(message) ==
    IF message.requestId = NoRequestId
    THEN /\ warnings' = warnings + 1
         /\ UNCHANGED << receive_thread, pending_requests >>
    ELSE /\ UNCHANGED warnings
         /\ IF ~inited
            THEN /\ receive_thread' = "AttributeError"
                 /\ UNCHANGED pending_requests
            ELSE IF message.requestId \notin DOMAIN pending_requests
            THEN /\ pending_requests' =
                        Resolved(Registered(pending_requests,
                                            message.requestId),
                                 message.requestId, message)
                 /\ UNCHANGED receive_thread
            ELSE IF pending_requests[message.requestId].done
            THEN /\ receive_thread' = "InvalidStateError"
                 /\ UNCHANGED pending_requests
            ELSE /\ pending_requests' =
                        Resolved(pending_requests, message.requestId, message)
                 /\ UNCHANGED receive_thread

\* Remote._handle_message
handle_message(message) ==
    IF message.requestId = NoRequestId
    THEN /\ warnings' = warnings + 1
         /\ UNCHANGED << receive_thread, pending_requests >>
    ELSE /\ UNCHANGED warnings
         /\ IF ~inited
            THEN /\ receive_thread' = "AttributeError"
                 /\ UNCHANGED pending_requests
            ELSE IF message.requestId \notin DOMAIN pending_requests
            THEN /\ receive_thread' = "KeyError"
                 /\ UNCHANGED pending_requests
            ELSE IF pending_requests[message.requestId].done
            THEN /\ receive_thread' = "InvalidStateError"
                 /\ UNCHANGED pending_requests
            ELSE /\ pending_requests' =
                        Resolved(pending_requests, message.requestId, message)
                 /\ UNCHANGED receive_thread

\* Mutant of recv_closed: WebSocketConnectionClosedException is not caught
\* and ends the receive thread as an error.
recv_closed_uncaught ==
    /\ receive_thread = "running"
    /\ closed
    /\ receive_thread' = "WebSocketConnectionClosedException"
    /\ UNCHANGED << status_vars, timeout_arg, inited, timeout, closed,
                    pending_requests, uuids, sent, nrecv, warnings, pc,
                    method, payload, outcome, arrived >>

\* _listen_for_messages: recv raises WebSocketConnectionClosedException.
recv_closed ==
    /\ receive_thread = "running"
    /\ closed
    /\ receive_thread' = "exited"
    /\ UNCHANGED << status_vars, timeout_arg, inited, timeout, closed,
                    pending_requests, uuids, sent, nrecv, warnings, pc,
                    method, payload, outcome, arrived >>

\* _listen_for_messages: recv returns an empty frame ("if not data: break").
recv_empty ==
    /\ receive_thread = "running"
    /\ ~closed
    /\ nrecv < MaxMsgs
    /\ nrecv' = nrecv + 1
    /\ receive_thread' = "exited"
    /\ UNCHANGED << status_vars, timeout_arg, inited, timeout, closed,
                    pending_requests, uuids, sent, warnings, pc, method,
                    payload, outcome, arrived >>

\* _listen_for_messages: recv returns a frame, json.loads decodes it and
\* the handler is invoked with the message.
recv_message(message) ==
    /\ receive_thread = "running"
    /\ ~closed
    /\ nrecv < MaxMsgs
    /\ nrecv' = nrecv + 1
    /\ arrived' = Arrival(message)
    /\ handle_message(message)
    /\ UNCHANGED << status_vars, timeout_arg, inited, timeout, closed, uuids,
                    sent, pc, method, payload, outcome >>

listen_for_messages ==
    \/ recv_closed
    \/ recv_empty
    \/ \E message \in InboundMessages(SentIds) : recv_message(message)

\* --------------------------------------------------------- StatusListener
\* The frames the box pushes on the status connection: a status message
\* {"data": {"status": s}} is written s; Absent is a message without data.
StatusMessages == {"powerOn", "powerOff", Absent}

\* recv's return value for a frame that is empty.
EmptyFrame == ""

\* StatusListener.__init__, after the base constructor.
StatusListener_init ==
    /\ on_status_change = "unset"
    /\ on_status_change' = IF status_callback_arg THEN "callback" ELSE "None"
    /\ UNCHANGED << remote_vars, status_callback_arg, status_closed,
                    status_thread, status_frames, status_dispatched,
                    status_handling, status_calls >>

\* WebSocketClient.close, on the listener.
status_close ==
    /\ on_status_change # "unset"
    /\ ~status_closed
    /\ status_closed' = TRUE
    /\ UNCHANGED << remote_vars, status_callback_arg, on_status_change,
                    status_thread, status_frames, status_dispatched,
                    status_handling, status_calls >>

\* The receive thread is at self._connection.recv(): it runs and no handler
\* invocation of it is in progress.
AtRecv == status_thread = "running" /\ status_handling = << >>

\* _listen_for_messages: recv raises WebSocketConnectionClosedException.
status_recv_closed ==
    /\ AtRecv
    /\ status_closed
    /\ status_thread' = "exited"
    /\ UNCHANGED << remote_vars, status_callback_arg, on_status_change,
                    status_closed, status_frames, status_dispatched,
                    status_handling, status_calls >>

\* _listen_for_messages: recv returns an empty frame ("if not data: break").
status_recv_empty ==
    /\ AtRecv
    /\ ~status_closed
    /\ Len(status_frames) < MaxMsgs
    /\ status_frames' = Append(status_frames, EmptyFrame)
    /\ status_thread' = "exited"
    /\ UNCHANGED << remote_vars, status_callback_arg, on_status_change,
                    status_closed, status_dispatched, status_handling,
                    status_calls >>

\* Mutant of status_recv_message: the handler is started without waiting for
\* the previous invocation to return.
status_recv_message_async(message) ==
    /\ status_thread = "running"
    /\ ~status_closed
    /\ Len(status_frames) < MaxMsgs
    /\ status_frames' = Append(status_frames, message)
    /\ status_dispatched' = Append(status_dispatched, message)
    /\ status_handling' = Append(status_handling, message)
    /\ UNCHANGED << remote_vars, status_callback_arg, on_status_change,
                    status_closed, status_thread, status_calls >>

\* _listen_for_messages: recv returns a frame, json.loads decodes it and
\* self._handle_message(message) is called.
status_recv_message(message) ==
    /\ AtRecv
    /\ ~status_closed
    /\ Len(status_frames) < MaxMsgs
    /\ status_frames' = Append(status_frames, message)
    /\ status_dispatched' = Append(status_dispatched, message)
    /\ status_handling' = Append(status_handling, message)
    /\ UNCHANGED << remote_vars, status_callback_arg, on_status_change,
                    status_closed, status_thread, status_calls >>

\* StatusListener._handle_message, to its return or to the exception that
\* ends the receive thread.
status_handle_message ==
    /\ status_thread = "running"
    /\ status_handling # << >>
    /\ status_handling' = Tail(status_handling)
    /\ LET message == Head(status_handling)
       IN  IF message = Absent
           THEN /\ status_thread' = "KeyError"
                /\ UNCHANGED status_calls
           ELSE IF on_status_change = "unset"
           THEN /\ status_thread' = "AttributeError"
                /\ UNCHANGED status_calls
           ELSE IF on_status_change = "callback"
           THEN /\ status_calls' =
                      Append(status_calls, message = "powerOn")
                /\ UNCHANGED status_thread
           ELSE UNCHANGED << status_thread, status_calls >>
    /\ UNCHANGED << remote_vars, status_callback_arg, on_status_change,
                    status_closed, status_frames, status_dispatched >>

\* A StatusListener under construction; no Remote is in use.
ListenerInit == RemoteInit({DefaultTimeout}) /\ StatusInit(BOOLEAN)

ListenerNext ==
    \/ StatusListener_init
    \/ status_close
    \/ status_recv_closed
    \/ status_recv_empty
    \/ \E message \in StatusMessages : status_recv_message(message)
    \/ status_handle_message

ListenerSpec == ListenerInit /\ [][ListenerNext]_vars

\* ------------------------------------------------------------------ system
Next ==
    \/ Remote_init
    \/ close
    \/ \E t \in Threads, button \in ButtonInputs : press_button(t, button)
    \/ \E t \in Threads : get_versions(t)
    \/ \E t \in Threads : is_power_on(t)
    \/ \E t \in Threads : send_register(t)
    \/ \E t \in Threads : send_result(t)
    \/ \E t \in Threads : send_timeout(t)
    \/ listen_for_messages

Spec == Init /\ [][Next]_vars

\* The threads are scheduled: the receive thread blocked in recv on a closed
\* connection gets its exception, a caller past the send registers its
\* future, and a caller in future.result wakes on the result or the timeout.
FairSpec ==
    /\ Spec
    /\ WF_vars(recv_closed)
    /\ \A t \in Threads :
          /\ WF_vars(send_register(t))
          /\ WF_vars(send_result(t) \/ send_timeout(t))

\* ------------------------------------------------------------------ claims
\* The caller t is inside _send: its payload was transmitted and the call
\* has not ended.
InFlight(t) == pc[t] \in {"sent", "waiting"}

\* The caller t is blocked in future.result on a future nobody resolved.
Blocked(t) ==
    /\ pc[t] = "waiting"
    /\ request_id(t) \in DOMAIN pending_requests
    /\ ~pending_requests[request_id(t)].done

\* The call of t went through _send and the transmission succeeded.
EndedAfterSend(t) ==
    /\ pc[t] = "ended"
    /\ payload[t] # NoPayload
    /\ outcome[t].kind # "WebSocketConnectionClosedException"

\* C1: a message whose requestId matches no entry of the pending table
\* (an unknown id, or the response of a call that already timed out) leaves
\* the receive loop running and the pending table as it was.
C1_UnmatchedMessageTolerated ==
    [][ \A message \in InboundMessages(SentIds) :
            ( /\ inited
              /\ message.requestId # NoRequestId
              /\ message.requestId \notin DOMAIN pending_requests
              /\ recv_message(message) )
            => ( /\ receive_thread' = "running"
                 /\ pending_requests' = pending_requests ) ]_vars

\* C8: whenever a command carrying identifier X has been transmitted and its
\* call has not ended, the pending table contains X.
C8_RegisteredBeforeTransmitted ==
    \A t \in Threads : InFlight(t) => request_id(t) \in DOMAIN pending_requests

\* C3: a call whose matching response with remoteResponseCode "OK" arrived
\* while it was in progress has returned that response's data (get_versions),
\* the truth of data.power == "powerOn" (is_power_on) or None (press_button),
\* and its identifier is no longer in the pending table.
C3_OkResponseReturned ==
    \A t \in Threads :
        ( /\ EndedAfterSend(t)
          /\ arrived[t] # << >>
          /\ arrived[t][1].remoteResponseCode = "OK"
          /\ method[t] = "press_button" \/ arrived[t][1].data # Absent )
        => ( /\ outcome[t].kind = "return"
             /\ outcome[t].value =
                  CASE method[t] = "press_button" -> "None"
                    [] method[t] = "get_versions" -> arrived[t][1].data
                    [] method[t] = "is_power_on" ->
                         IF arrived[t][1].data = "powerOn"
                         THEN "True" ELSE "False"
             /\ request_id(t) \notin DOMAIN pending_requests )

\* C5: a call whose matching response lacked remoteResponseCode, or carried
\* a value other than "OK", has failed with RemoteResponseError carrying the
\* payload and that response, and its identifier is no longer in the table.
C5_BadResponseRaises ==
    \A t \in Threads :
        ( /\ EndedAfterSend(t)
          /\ arrived[t] # << >>
          /\ arrived[t][1].remoteResponseCode # "OK" )
        => ( /\ outcome[t].kind = "RemoteResponseError"
             /\ outcome[t].payload = payload[t]
             /\ outcome[t].response = arrived[t][1]
             /\ request_id(t) \notin DOMAIN pending_requests )

C4_TimeoutRaises ==
    \A t \in Threads :
        /\ (EndedAfterSend(t) /\ arrived[t] = << >>)
           => (timeout_arg # 0 /\ outcome[t].kind = "RemoteTimeoutError")
        /\ outcome[t].kind = "RemoteTimeoutError"
           => ( /\ pc[t] = "ended"
                /\ timeout_arg # 0
                /\ payload[t] # NoPayload
                /\ outcome[t].payload = payload[t]
                /\ request_id(t) \notin DOMAIN pending_requests )

C4_TimedOutWitness ==
    \E t \in Threads :
        /\ EndedAfterSend(t)
        /\ arrived[t] = << >>
        /\ outcome[t].kind = "RemoteTimeoutError"
        /\ receive_thread = "running"

\* C6: press_button with a name that is not in BUTTONS raises
\* InvalidButtonError carrying the name, transmits nothing and adds no entry
\* to the pending table; no buttonEvent with such a name is ever transmitted.
C6_InvalidButtonRejected ==
    /\ [](\A i \in 1 .. Len(sent) :
             sent[i].action = "buttonEvent" => sent[i].key \in BUTTONS)
    /\ [][ \A t \in Threads, button \in ButtonInputs \ BUTTONS :
               press_button(t, button)
               => ( /\ pc'[t] = "ended"
                    /\ outcome'[t].kind = "InvalidButtonError"
                    /\ outcome'[t].button = button
                    /\ sent' = sent
                    /\ uuids' = uuids
                    /\ pending_requests' = pending_requests ) ]_vars

\* An invalid name was rejected while the other caller's command is pending.
C6_RejectedWitness ==
    \E t, u \in Threads :
        /\ pc[t] = "ended"
        /\ outcome[t].kind = "InvalidButtonError"
        /\ outcome[t].button \notin BUTTONS
        /\ Blocked(u)
        /\ Len(sent) = 1

\* C7: every entry of the pending table belongs to exactly one call that is
\* waiting in _send; a call that has ended, however it ended, has no entry;
\* the table is empty when no call is in progress.
C7_EntriesBelongToCalls ==
    /\ \A id \in DOMAIN pending_requests :
           Cardinality({t \in Threads :
                           pc[t] = "waiting" /\ request_id(t) = id}) = 1
    /\ \A t \in Threads :
           pc[t] = "ended" => request_id(t) \notin DOMAIN pending_requests
    /\ (\A t \in Threads : pc[t] \in {"idle", "ended"})
           => DOMAIN pending_requests = {}

\* One call ended with RemoteResponseError and another with
\* RemoteTimeoutError, and the table is empty.
C7_AllEndedWitness ==
    \E t, u \in Threads :
        /\ pc[t] = "ended"
        /\ pc[u] = "ended"
        /\ outcome[t].kind = "RemoteResponseError"
        /\ outcome[u].kind = "RemoteTimeoutError"
        /\ DOMAIN pending_requests = {}

C10_ZeroTimeoutWaits ==
    (inited /\ timeout_arg = 0)
    => \A t \in Threads :
          /\ outcome[t].kind # "RemoteTimeoutError"
          /\ EndedAfterSend(t)
             => ( /\ arrived[t] # << >>
                  /\ arrived[t][1].requestId = request_id(t) )

\* With timeout 0 one call has returned on its response and another is
\* blocked although the receive loop is gone.
C10_WaitingWitness ==
    /\ timeout_arg = 0
    /\ receive_thread # "running"
    /\ \E t, u \in Threads :
          /\ EndedAfterSend(t)
          /\ outcome[t].kind = "return"
          /\ Blocked(u)

C11_EventuallyExited ==
    (closed /\ receive_thread = "running") ~> (receive_thread = "exited")

StatusHandled == status_handling # << >> /\ status_handling' # status_handling

\* C12: every inbound status message makes the StatusListener invoke the
\* supplied callback exactly once, with TRUE iff data.status is "powerOn";
\* without a callback the message has no effect; either way the receive loop
\* continues.
C12_CallbackOncePerStatusMessage ==
    [][ ( /\ StatusHandled
          /\ Head(status_handling) \in {"powerOn", "powerOff"} )
        => ( /\ status_thread' = "running"
             /\ status_calls' =
                  IF status_callback_arg
                  THEN Append(status_calls, Head(status_handling) = "powerOn")
                  ELSE status_calls ) ]_vars

\* C13: a message whose requestId matches a pending entry resolves that
\* entry's future with the message, once; a second message with the same
\* requestId, read while the entry is still in the table, leaves the result
\* already delivered as it is and leaves the receive loop running.
C13_MatchingMessageResolvesOnce ==
    [][ \A message \in InboundMessages(SentIds) :
            ( /\ message.requestId \in DOMAIN pending_requests
              /\ recv_message(message) )
            => ( /\ receive_thread' = "running"
                 /\ pending_requests' =
                      IF pending_requests[message.requestId].done
                      THEN pending_requests
                      ELSE Resolved(pending_requests, message.requestId,
                                    message) ) ]_vars

\* The frames that json.loads decodes: the non-empty ones.
Decoded(frames) == SelectSeq(frames, LAMBDA frame : frame # EmptyFrame)

\* C14: the receive loop invokes the handler once per decoded inbound
\* message, in the order the transport delivered them, and at most one
\* invocation is in progress: no frame is read while one is.
C14_HandlerSerializedInOrder ==
    /\ [](/\ status_dispatched = Decoded(status_frames)
          /\ Len(status_handling) <= 1
          /\ status_handling # << >>
             => status_handling =
                   << status_dispatched[Len(status_dispatched)] >>)
    /\ [][ status_frames' # status_frames
           => ( /\ status_handling = << >>
                /\ \E frame \in StatusMessages \cup {EmptyFrame} :
                       status_frames' = Append(status_frames, frame) ) ]_vars

C14_TwoInOrderWitness ==
    /\ status_dispatched = << "powerOff", "powerOn" >>
    /\ status_calls = << FALSE >>
    /\ status_handling = << "powerOn" >>

\* C15: a message on the command connection that carries no requestId is
\* logged as unhandled and otherwise ignored: the pending table and its
\* futures are unchanged, no call moves, and the receive loop continues.
C15_MessageWithoutIdIgnored ==
    [][ \A message \in InboundMessages(SentIds) :
            ( /\ message.requestId = NoRequestId
              /\ recv_message(message) )
            => ( /\ warnings' = warnings + 1
                 /\ pending_requests' = pending_requests
                 /\ pc' = pc
                 /\ outcome' = outcome
                 /\ receive_thread' = "running" ) ]_vars

C15_IgnoredWhilePendingWitness ==
    /\ warnings = MaxMsgs
    /\ receive_thread = "running"
    /\ \E t \in Threads : Blocked(t)

\* C16: the handler only resolves futures: a receive step keeps the keys of
\* the pending table and every entry other than the one the message names.
\* A key is added or removed only by the caller thread that owns it, in the
\* step that registers or deletes its own request id, and that step leaves
\* every other entry as it was.
C16_TableOwnedByCallers ==
    [][ /\ nrecv' # nrecv
           => ( /\ DOMAIN pending_requests' = DOMAIN pending_requests
                /\ \E named \in DOMAIN pending_requests \cup {NoRequestId} :
                       \A id \in DOMAIN pending_requests \ {named} :
                           pending_requests'[id] = pending_requests[id] )
        /\ DOMAIN pending_requests' # DOMAIN pending_requests
           => \E t \in Threads :
                 /\ \A u \in Threads \ {t} :
                        /\ pc'[u] = pc[u]
                        /\ InFlight(u) => request_id(u) # request_id(t)
                 /\ \/ /\ pc[t] = "sent" /\ pc'[t] = "waiting"
                       /\ pending_requests' =
                             Registered(pending_requests, request_id(t))
                    \/ /\ pc[t] = "waiting" /\ pc'[t] = "ended"
                       /\ pending_requests' =
                             Deleted(pending_requests, request_id(t)) ]_vars

C16_ResolvedAndRemovedWitness ==
    \E t, u \in Threads :
        /\ EndedAfterSend(t)
        /\ request_id(t) \notin DOMAIN pending_requests
        /\ pc[u] = "waiting"
        /\ request_id(u) \in DOMAIN pending_requests
        /\ pending_requests[request_id(u)].done
        /\ arrived[t] # << >>

\* The call of t ended in _send because the send raised.
SendFailed(t) ==
    /\ pc[t] = "ended"
    /\ outcome[t].kind = "WebSocketConnectionClosedException"

\* C17: a command issued when the connection is already closed fails in the
\* send: the transport error reaches the caller (no RemoteTimeoutError, no
\* return), nothing is transmitted and the pending table holds no entry for
\* the request, then and afterwards.
C17_SendOnClosedPropagates ==
    /\ [](\A t \in Threads :
              SendFailed(t) => request_id(t) \notin DOMAIN pending_requests)
    /\ [][ \A t \in Threads :
               ( /\ closed
                 /\ uuids' # uuids
                 /\ payload'[t].requestId = uuid4(uuids') )
               => ( /\ pc'[t] = "ended"
                    /\ outcome'[t].kind = "WebSocketConnectionClosedException"
                    /\ sent' = sent
                    /\ pending_requests' = pending_requests ) ]_vars

C17_FailedOnClosedWitness ==
    /\ closed
    /\ \E t \in Threads :
          /\ SendFailed(t)
          /\ request_id(t) = uuid4(MaxCalls)
          /\ request_id(t) \notin SentIds

\* The number of outbound messages that carry the request id of t's call.
Transmissions(t) ==
    Cardinality({i \in 1 .. Len(sent) : sent[i].requestId = request_id(t)})

\* C18 as stated: every call that reaches _send has transmitted exactly one
\* outbound message, whatever its outcome.
C18_ExactlyOneTransmission ==
    \A t \in Threads : payload[t] # NoPayload => Transmissions(t) = 1

\* C18, amended: a call that reaches _send transmits exactly one outbound
\* message when the connection is open at the send and none when the send
\* fails on a closed connection; no request id is ever transmitted twice,
\* and the only step that transmits is the one that starts a call.
C18_OneTransmissionUnlessSendFails ==
    /\ [](/\ \A t \in Threads :
                payload[t] # NoPayload
                => Transmissions(t) = IF SendFailed(t) THEN 0 ELSE 1
          /\ \A i, j \in 1 .. Len(sent) :
                sent[i].requestId = sent[j].requestId => i = j)
    /\ [][ sent' # sent
           => \E t \in Threads :
                 /\ CanCall(t)
                 /\ ~closed
                 /\ pc'[t] = "sent"
                 /\ sent' = Append(sent, payload'[t]) ]_vars

C18_TimeoutAndErrorWitness ==
    /\ Len(sent) = MaxCalls
    /\ \E t, u \in Threads :
          /\ pc[t] = "ended" /\ outcome[t].kind = "RemoteTimeoutError"
          /\ pc[u] = "ended" /\ outcome[u].kind = "RemoteResponseError"
          /\ Transmissions(t) = 1
          /\ Transmissions(u) = 1

\* C19: no inbound message is dispatched to Remote's handler before
\* Remote.__init__ has created the pending table, so a message that arrives
\* right after the connection opens does not terminate the receive loop by
\* an error of construction.
C19_NoDispatchBeforeConstructed ==
    [][ \A message \in InboundMessages(SentIds) :
            recv_message(message)
            => ( /\ inited
                 /\ receive_thread' # "AttributeError" ) ]_vars

\* The step starts a call of t that reaches _send.
Issues(t) ==
    /\ CanCall(t)
    /\ uuids' # uuids
    /\ payload'[t].requestId = uuid4(uuids')

\* The call of t is in _send and no message has resolved its future.
Unanswered(t) ==
    /\ InFlight(t)
    /\ request_id(t) \in DOMAIN pending_requests
       => ~pending_requests[request_id(t)].done

\* C20 as stated, second half: with a non-zero timeout, a command issued
\* once the receive loop has terminated ends with RemoteTimeoutError and
\* with nothing else.
C20_LaterCommandsTimeOut ==
    [][ \A t \in Threads :
            ( /\ timeout_arg # 0
              /\ receive_thread # "running"
              /\ Issues(t) \/ Unanswered(t)
              /\ pc'[t] = "ended" )
            => outcome'[t].kind = "RemoteTimeoutError" ]_vars

\* C20, amended: with a non-zero timeout a call in _send can always take its
\* next step and is at most two steps from its end (register, then result or
\* timeout), whatever the receive loop does or has done; a command issued
\* once the receive loop has terminated never succeeds: it ends with the
\* propagated send error when the connection is closed and with
\* RemoteTimeoutError otherwise.
C20_CallsEndWithoutReceiveLoop ==
    /\ [](timeout_arg # 0
          => \A t \in Threads :
                /\ pc[t] = "sent" => ENABLED send_register(t)
                /\ pc[t] = "waiting"
                   => ENABLED (send_result(t) \/ send_timeout(t)))
    /\ [][ \A t \in Threads :
             /\ pc[t] = "sent" => pc'[t] \in {"sent", "waiting"}
             /\ pc[t] = "waiting" => pc'[t] \in {"waiting", "ended"}
             /\ ( /\ timeout_arg # 0
                  /\ receive_thread # "running"
                  /\ Issues(t) \/ Unanswered(t)
                  /\ pc'[t] = "ended" )
                => outcome'[t].kind =
                      IF Issues(t) /\ closed
                      THEN "WebSocketConnectionClosedException"
                      ELSE "RemoteTimeoutError" ]_vars

\* Under fair scheduling of the caller threads every call in _send ends.
C20_EventuallyEnds ==
    \A t \in Threads : (timeout_arg # 0 /\ InFlight(t)) ~> (pc[t] = "ended")

C20_TimedOutWithoutLoopWitness ==
    /\ timeout_arg # 0
    /\ receive_thread = "AttributeError"
    /\ ~closed
    /\ \E t \in Threads :
          /\ pc[t] = "ended"
          /\ outcome[t].kind = "RemoteTimeoutError"
          /\ Transmissions(t) = 1

====
